---- MODULE Spec2Model ----
(***************************************************************************)
(* Model of the batch scoring engine: Scorer.score (src/main/scorer.py),   *)
(* DataLoader (src/main/data_loader.py) and PipelineBuilder                *)
(* (src/main/pipeline_builder.py).                                         *)
(*                                                                         *)
(* One run of Scorer.score is a state machine.  The main thread loads the  *)
(* pipeline file and the model, builds the pipeline, opens the Parquet     *)
(* writer, pulls batches out of _batch_generator and submits them to a     *)
(* ThreadPoolExecutor, drains the futures, and leaves the two `with`       *)
(* blocks.  The worker threads run _process_batch on the ONE pipeline      *)
(* object all of them share.                                               *)
(***************************************************************************)
EXTENDS Integers, Sequences, FiniteSets, TLC

(* ---------------------------- bounds ---------------------------------- *)
MaxRows == 3        \* rows in the input file
MaxBatchSize == 2   \* largest batch_size argument
MaxWorkers == 2     \* largest max_workers argument
MaxSteps == 2       \* steps declared in the pipeline file

(* ------------------------- value encodings ---------------------------- *)
\* A feature value that is missing: df.dropna drops the row.
NaN == 0
\* A feature value dropna keeps but the pipeline rejects (fit_transform raises).
Inf == 3
\* The values the three feature columns of a row take, as one code per row.
FeatVals == {NaN, 1, 2, Inf}
\* The values of the columns of the file that are not feature columns.
ExtraVals == {5}
\* A row of the input file: <<feature columns, other columns>>.
RawRows == FeatVals \X ExtraVals

\* Thread identities: the main thread, and the pool thread that runs the work
\* item of future i (the pool's threads are interchangeable).
MainThread == 0
WorkerThread(i) == i

\* The kinds of step a pipeline file can declare: a class one of the modules
\* exposes and that accepts its params, a class no module exposes, a class
\* that is found and whose constructor rejects the params.
StepKinds == {"ok", "unknown", "badparams"}

VARIABLES
  pc,           \* position of the main thread in Scorer.score
  batchSize,    \* argument batch_size
  maxWorkers,   \* argument max_workers
  cfgStatus,    \* outcome of load_pipeline_file: "unread", "ok", "unreadable", "malformed"
  hasModelKey,  \* the steps mapping holds the reserved key "model"
  config,       \* pipeline_configs: the declared steps, in order (their kinds)
  modelStatus,  \* self.model: "unloaded", "ok", "no_predict", "unloadable"
  pipeline,     \* the built Pipeline: names (positions) of its steps
  failedAt,     \* stage whose exception is propagating out of score, or "none"
  fileRows,     \* rows the reader has read from the input file so far
  batch,        \* local `batch` of _batch_generator: list of DataFrames
  futures,      \* local `futures` of score, with the state of each Future
  pipelineFit,  \* fit state held by the shared pipeline: future it was fitted on
  sink,         \* ParquetWriter: "unopened", "open", "closed"
  closeCount,   \* number of times the writer was closed
  sinkRows,     \* prediction rows in the output file, in write order
  writing,      \* threads that are inside writer.write_table
  cur,          \* future whose table the draining loop is writing
  fileState,    \* output file: "untouched" or "created" (created or truncated)
  returned,     \* score returned the output path
  mainPc,       \* position of run_score_pipeline.main
  args,         \* main's arguments as passed: "arg" (provided) or "None"
  env,          \* the .env values of the parameters: "env" or "undefined"
  params        \* main's locals data_path, pipeline_path, batch_size, max_workers

vars == <<pc, batchSize, maxWorkers, cfgStatus, hasModelKey, config, modelStatus,
          pipeline, failedAt, fileRows, batch, futures, pipelineFit,
          sink, closeCount, sinkRows, writing, cur, fileState, returned,
          mainPc, args, env, params>>

\* The variables of run_score_pipeline.main.
mainVars == <<mainPc, args, env, params>>

\* The parameters of main.
ParamNames == {"data_path", "pipeline_path", "batch_size", "max_workers"}

(* ------------------------- sequence helpers --------------------------- *)
Min(a, b) == IF a <= b THEN a ELSE b

RECURSIVE SeqMax(_)
SeqMax(s) == IF s = <<>> THEN 0
             ELSE LET m == SeqMax(Tail(s)) IN IF Head(s) >= m THEN Head(s) ELSE m

RECURSIVE Concat(_)
\* pd.concat(list of DataFrames, ignore_index=True): rows in list order.
Concat(dfs) == IF dfs = <<>> THEN <<>> ELSE Head(dfs) \o Concat(Tail(dfs))

\* Python slices lst[:n] and lst[n:].
SliceTo(lst, n) == SubSeq(lst, 1, Min(n, Len(lst)))
SliceFrom(lst, n) == SubSeq(lst, Min(n, Len(lst)) + 1, Len(lst))

(* ----------------------------- DataLoader ----------------------------- *)
\* df.dropna(inplace=True): drops every row holding a missing value.
DropNa(df) == SelectSeq(df, LAMBDA r : r[1] # NaN /\ r[2] # NaN)

\* record[features]: keeps the feature columns of every row.
SelectFeatures(df) == [i \in 1..Len(df) |-> df[i][1]]

(* --------------------------- PipelineBuilder -------------------------- *)
\* Results of the calls that can raise: exc is "none" or the exception type.
Ok(v) == [exc |-> "none", val |-> v]
Raise(e) == [exc |-> e, val |-> <<>>]

\* InstantiateStep with the constructor's error reported as ValueError, which
\* the caller downgrades to a skip.
InstantiateStepBadParamsSkipped(name, kind) ==
  IF kind = "ok" THEN Ok(<<name>>)
  ELSE IF kind = "badparams" THEN Raise("ValueError")
  ELSE Raise("RuntimeError")

\* _instantiate_step.  An unknown class raises ValueError at line 59 INSIDE
\* the try of line 46, so `except Exception` (line 61) turns it into a
\* RuntimeError; a constructor that rejects its params raises TypeError,
\* which the same handler turns into a RuntimeError.
InstantiateStep(name, kind) ==
  IF kind = "ok" THEN Ok(<<name>>) ELSE Raise("RuntimeError")

RECURSIVE InstantiateSteps(_, _, _)
\* The loop of _instantiate_pipeline: only ValueError is downgraded to a skip.
InstantiateSteps(cfg, i, acc) ==
  IF i > Len(cfg) THEN Ok(acc)
  ELSE LET r == InstantiateStep(i, cfg[i]) IN
       IF r.exc = "none" THEN InstantiateSteps(cfg, i + 1, acc \o r.val)
       ELSE IF r.exc = "ValueError" THEN InstantiateSteps(cfg, i + 1, acc)
       ELSE Raise("RuntimeError")

\* _instantiate_pipeline: an empty configuration raises ValueError inside the
\* try, which `except Exception` re-raises as RuntimeError.
InstantiatePipeline(cfg) ==
  IF cfg = <<>> THEN Raise("RuntimeError") ELSE InstantiateSteps(cfg, 1, <<>>)

\* build: wraps whatever _instantiate_pipeline raises in a RuntimeError.
Build(cfg) ==
  LET r == InstantiatePipeline(cfg) IN
  IF r.exc = "none" THEN r ELSE Raise("RuntimeError")

(* ------------------------------- Init --------------------------------- *)
Init ==
  /\ pc = "load_config"
  /\ batchSize \in 1..MaxBatchSize
  /\ maxWorkers \in 1..MaxWorkers
  /\ cfgStatus = "unread"
  /\ hasModelKey = FALSE
  /\ config = <<>>
  /\ modelStatus = "unloaded"
  /\ pipeline = <<>>
  /\ failedAt = "none"
  /\ fileRows = <<>>
  /\ batch = <<>>
  /\ futures = <<>>
  /\ pipelineFit = 0
  /\ sink = "unopened"
  /\ closeCount = 0
  /\ sinkRows = <<>>
  /\ writing = {}
  /\ cur = 0
  /\ fileState = "untouched"
  /\ returned = FALSE
  /\ mainPc = "score"
  /\ args = [p \in ParamNames |-> "arg"]
  /\ env = [p \in ParamNames |-> "undefined"]
  /\ params = [p \in ParamNames |-> "arg"]

(* ---------------------- Scorer.score: loading ------------------------- *)
scoringVars == <<fileRows, batch, futures, pipelineFit, sink, closeCount,
                 sinkRows, writing, cur, fileState, returned>>

\* All pipeline files of at most MaxSteps steps.
Configs == UNION {[1..n -> StepKinds] : n \in 0..MaxSteps}

\* score line 116: load_pipeline_file; any error is re-raised as RuntimeError.
LoadConfig ==
  /\ pc = "load_config"
  /\ \/ /\ \E st \in {"unreadable", "malformed"} : cfgStatus' = st
        /\ pc' = "failed"
        /\ failedAt' = "load_config"
        /\ UNCHANGED <<hasModelKey, config>>
     \/ /\ cfgStatus' = "ok"
        /\ hasModelKey' \in BOOLEAN
        /\ config' \in Configs
        /\ pc' = "load_model"
        /\ UNCHANGED failedAt
  /\ UNCHANGED <<batchSize, maxWorkers, modelStatus, pipeline>>
  /\ UNCHANGED scoringVars
  /\ UNCHANGED mainVars

\* LoadModel with the error of load_model logged instead of raised: the run
\* goes on with self.model = None.
LoadModelLenient ==
  /\ pc = "load_model"
  /\ \/ /\ hasModelKey
        /\ \E st \in {"ok", "no_predict"} : modelStatus' = st
     \/ modelStatus' = "unloadable"
  /\ pc' = "build"
  /\ UNCHANGED <<failedAt, batchSize, maxWorkers, cfgStatus, hasModelKey, config,
                 pipeline>>
  /\ UNCHANGED scoringVars
  /\ UNCHANGED mainVars

\* score lines 119-122: pop the model key and load_model.  Without the key the
\* path is None and Path(None) raises inside load_model.
LoadModel ==
  /\ pc = "load_model"
  /\ \/ /\ hasModelKey
        /\ \E st \in {"ok", "no_predict"} : modelStatus' = st
        /\ pc' = "build"
        /\ UNCHANGED failedAt
     \/ /\ modelStatus' = "unloadable"
        /\ pc' = "failed"
        /\ failedAt' = "load_model"
  /\ UNCHANGED <<batchSize, maxWorkers, cfgStatus, hasModelKey, config, pipeline>>
  /\ UNCHANGED scoringVars
  /\ UNCHANGED mainVars

\* BuildPipeline with the error of build logged instead of raised.
BuildPipelineLenient ==
  /\ pc = "build"
  /\ LET r == Build(config) IN
     pipeline' = IF r.exc = "none" THEN r.val ELSE <<>>
  /\ pc' = "open_sink"
  /\ UNCHANGED <<failedAt, batchSize, maxWorkers, cfgStatus, hasModelKey, config,
                 modelStatus>>
  /\ UNCHANGED scoringVars
  /\ UNCHANGED mainVars

\* score line 125: pipeline_builder.build(pipeline_configs).
BuildPipeline ==
  /\ pc = "build"
  /\ LET r == Build(config) IN
     IF r.exc = "none"
     THEN /\ pipeline' = r.val
          /\ pc' = "open_sink"
          /\ UNCHANGED failedAt
     ELSE /\ pc' = "failed"
          /\ failedAt' = "build"
          /\ UNCHANGED pipeline
  /\ UNCHANGED <<batchSize, maxWorkers, cfgStatus, hasModelKey, config, modelStatus>>
  /\ UNCHANGED scoringVars
  /\ UNCHANGED mainVars

(* ------------------- Scorer.score: opening the sink ------------------- *)
loadVars == <<batchSize, maxWorkers, cfgStatus, hasModelKey, config, modelStatus,
              pipeline>>

\* score lines 130-146: make the output directory and open the ParquetWriter,
\* which creates or truncates the output file.  Failing to open it raises.
OpenSink ==
  /\ pc = "open_sink"
  /\ \/ /\ sink' = "open"
        /\ fileState' = "created"
        /\ pc' = "submit"
        /\ UNCHANGED failedAt
     \/ /\ pc' = "failed"
        /\ failedAt' = "open_sink"
        /\ UNCHANGED <<sink, fileState>>
  /\ UNCHANGED loadVars
  /\ UNCHANGED mainVars
  /\ UNCHANGED <<fileRows, batch, futures, pipelineFit, closeCount,
                 sinkRows, writing, cur, returned>>

(* -------------------- Scorer._batch_generator ------------------------- *)
\* A Future just created by executor.submit(self._process_batch, b, pipeline).
NewFuture(b) ==
  [batch |-> b, state |-> "pending", ok |-> FALSE, raised |-> FALSE,
   preds |-> <<>>, usedFit |-> 0, drained |-> "no"]

\* GenStep without line 74: the DataFrames that were yielded stay in the list.
GenStepKeepsYielded(lst, record, bs) ==
  LET appended == Append(lst, SelectFeatures(record)) IN
  IF Len(appended) >= bs
  THEN [yield |-> <<Concat(SliceTo(appended, bs))>>, batch |-> appended]
  ELSE [yield |-> <<>>, batch |-> appended]

\* Lines 70-74, for one DataFrame `record` of the reader: what is yielded (a
\* sequence of at most one batch) and the list that is kept.
GenStep(lst, record, bs) ==
  LET appended == Append(lst, SelectFeatures(record)) IN
  IF Len(appended) >= bs
  THEN [yield |-> <<Concat(SliceTo(appended, bs))>>, batch |-> SliceFrom(appended, bs)]
  ELSE [yield |-> <<>>, batch |-> appended]

\* Lines 76-77, when the reader is exhausted.
GenFinal(lst) == IF lst # <<>> THEN <<Concat(lst)>> ELSE <<>>

\* executor.submit for every batch the generator yielded in this step.
Submit(fs, yielded) == fs \o [i \in 1..Len(yielded) |-> NewFuture(yielded[i])]

\* One iteration of `for record in stream_data(...)` together with the
\* `for batch in self._batch_generator(...)` body it feeds (lines 149-152).
\* iter_batches hands out at most batch_size rows at a time, fewer at the end
\* of a row group; stream_data drops the rows with a missing value.
GenNext ==
  /\ pc = "submit"
  /\ \E k \in 1..Min(batchSize, MaxRows - Len(fileRows)) :
     \E df \in [1..k -> RawRows] :
        LET g == GenStep(batch, DropNa(df), batchSize) IN
        /\ fileRows' = fileRows \o df
        /\ batch' = g.batch
        /\ futures' = Submit(futures, g.yield)
  /\ UNCHANGED loadVars
  /\ UNCHANGED mainVars
  /\ UNCHANGED <<pc, failedAt, pipelineFit, sink, closeCount, sinkRows,
                 writing, cur, fileState, returned>>

\* The reader is exhausted: the generator yields what is left and returns, and
\* the main thread goes on to as_completed (line 154).
GenExhaust ==
  /\ pc = "submit"
  /\ futures' = Submit(futures, GenFinal(batch))
  /\ batch' = <<>>
  /\ pc' = "drain"
  /\ UNCHANGED loadVars
  /\ UNCHANGED mainVars
  /\ UNCHANGED <<failedAt, fileRows, pipelineFit, sink, closeCount,
                 sinkRows, writing, cur, fileState, returned>>

\* GenRaise with the reader's error caught around the submit loop only: the
\* futures submitted so far are drained before the error is re-raised.
GenRaiseThenDrain ==
  /\ pc = "submit"
  /\ failedAt' = "scoring"
  /\ pc' = "drain"
  /\ UNCHANGED loadVars
  /\ UNCHANGED mainVars
  /\ UNCHANGED <<fileRows, batch, futures, pipelineFit, sink, closeCount,
                 sinkRows, writing, cur, fileState, returned>>

\* Opening or iterating the Parquet file raises: stream_data and the generator
\* re-raise it as RuntimeError, which leaves the submit loop and both `with`
\* blocks (the executor's first, then the writer's).
GenRaise ==
  /\ pc = "submit"
  /\ failedAt' = "scoring"
  /\ pc' = "shutdown"
  /\ UNCHANGED loadVars
  /\ UNCHANGED mainVars
  /\ UNCHANGED <<fileRows, batch, futures, pipelineFit, sink, closeCount,
                 sinkRows, writing, cur, fileState, returned>>

(* ----------------------- Scorer._process_batch ------------------------ *)
\* pipeline.fit_transform raises on a batch without rows or with a value the
\* steps reject.
FitRaises(b) == b = <<>> \/ \E i \in 1..Len(b) : b[i] = Inf

\* The statistic a fit leaves in the pipeline's steps.
FitState(b) == SeqMax(b)

\* The transform of a batch by steps holding the fit state st.
Transform(b, st) == [i \in 1..Len(b) |-> st - b[i]]

\* model.predict: one int64 prediction per transformed row.
Predict(x) == [i \in 1..Len(x) |-> IF x[i] > 0 THEN 1 ELSE 0]

\* OnBatchError without the handler of lines 98-100: the exception stays in the
\* future and future.result() re-raises it.
OnBatchErrorReraise(f) ==
  [f EXCEPT !.state = "finished", !.ok = FALSE, !.raised = TRUE]

\* Lines 98-100: the exception is logged and None is returned.
OnBatchError(f) ==
  [f EXCEPT !.state = "finished", !.ok = FALSE, !.raised = FALSE]

\* Line 97: the predictions are the result of the future.
OnBatchDone(f, p, fit) ==
  [f EXCEPT !.state = "finished", !.ok = TRUE, !.preds = p, !.usedFit = fit]

Pending == {i \in 1..Len(futures) : futures[i].state = "pending"}
FirstPending == CHOOSE i \in Pending : \A j \in Pending : i <= j
Running == {i \in 1..Len(futures) : futures[i].state = "running"}

\* A pool thread (there are at most max_workers) takes the oldest work item and
\* runs the fit half of pipeline.fit_transform(batch) (line 94) on the shared
\* pipeline object.
WorkerFit ==
  /\ Cardinality(Running) < maxWorkers
  /\ Pending # {}
  /\ LET i == FirstPending IN
     IF FitRaises(futures[i].batch)
     THEN /\ futures' = [futures EXCEPT ![i] = OnBatchError(@)]
          /\ UNCHANGED pipelineFit
     ELSE /\ futures' = [futures EXCEPT ![i].state = "running"]
          /\ pipelineFit' = i
  /\ UNCHANGED loadVars
  /\ UNCHANGED mainVars
  /\ UNCHANGED <<pc, failedAt, fileRows, batch, sink, closeCount, sinkRows,
                 writing, cur, fileState, returned>>

\* WorkerFinish with the worker appending its own predictions to the writer.
WorkerFinishWrites(i) ==
  /\ i \in Running
  /\ LET x == Transform(futures[i].batch, FitState(futures[pipelineFit].batch))
     IN  /\ futures' = [futures EXCEPT ![i] =
                          IF modelStatus = "no_predict" THEN OnBatchError(@)
                          ELSE OnBatchDone(@, Predict(x), pipelineFit)]
         /\ writing' = IF modelStatus = "no_predict" THEN writing
                       ELSE writing \cup {WorkerThread(i)}
  /\ UNCHANGED loadVars
  /\ UNCHANGED mainVars
  /\ UNCHANGED <<pc, failedAt, fileRows, batch, pipelineFit, sink, closeCount,
                 sinkRows, cur, fileState, returned>>

\* WorkerFinish for a worker that hangs in transform or predict.
WorkerFinishNever(i) ==
  /\ i \in Running
  /\ FALSE
  /\ UNCHANGED vars

\* The thread running future i does the transform half of fit_transform, with
\* whatever fit state the shared pipeline holds by now, then lines 95-97.
WorkerFinish(i) ==
  /\ i \in Running
  /\ LET x == Transform(futures[i].batch, FitState(futures[pipelineFit].batch))
     IN  futures' = [futures EXCEPT ![i] =
                       IF modelStatus = "no_predict" THEN OnBatchError(@)
                       ELSE OnBatchDone(@, Predict(x), pipelineFit)]
  /\ UNCHANGED loadVars
  /\ UNCHANGED mainVars
  /\ UNCHANGED <<pc, failedAt, fileRows, batch, pipelineFit, sink, closeCount,
                 sinkRows, writing, cur, fileState, returned>>

(* -------------------- Scorer.score: draining -------------------------- *)
Undrained == {i \in 1..Len(futures) : futures[i].drained = "no"}

\* One iteration of `for future in as_completed(futures)` up to the call of
\* write_table (lines 154-161).  future.result() re-raises what the worker
\* raised; `except Exception` (line 163) logs it.
DrainResult ==
  /\ pc = "drain"
  /\ \E i \in Undrained :
       /\ futures[i].state = "finished"
       /\ IF futures[i].raised
          THEN /\ futures' = [futures EXCEPT ![i].drained = "raised"]
               /\ UNCHANGED <<pc, writing, cur>>
          ELSE IF ~futures[i].ok
          THEN /\ futures' = [futures EXCEPT ![i].drained = "none"]
               /\ UNCHANGED <<pc, writing, cur>>
          ELSE /\ writing' = writing \cup {MainThread}
               /\ cur' = i
               /\ pc' = "writing"
               /\ UNCHANGED futures
  /\ UNCHANGED loadVars
  /\ UNCHANGED mainVars
  /\ UNCHANGED <<failedAt, fileRows, batch, pipelineFit, sink, closeCount,
                 sinkRows, fileState, returned>>

\* writer.write_table returns, or raises and `except Exception` (line 163)
\* logs the error and the loop goes on.
WriteEnd ==
  /\ pc = "writing"
  /\ \/ /\ sinkRows' = sinkRows \o futures[cur].preds
        /\ futures' = [futures EXCEPT ![cur].drained = "written"]
     \/ /\ futures' = [futures EXCEPT ![cur].drained = "write_failed"]
        /\ UNCHANGED sinkRows
  /\ writing' = writing \ {MainThread}
  /\ cur' = 0
  /\ pc' = "drain"
  /\ UNCHANGED loadVars
  /\ UNCHANGED mainVars
  /\ UNCHANGED <<failedAt, fileRows, batch, pipelineFit, sink, closeCount,
                 fileState, returned>>

\* as_completed has yielded every future: the loop ends.
DrainDone ==
  /\ pc = "drain"
  /\ Undrained = {}
  /\ pc' = "shutdown"
  /\ UNCHANGED loadVars
  /\ UNCHANGED mainVars
  /\ UNCHANGED <<failedAt, fileRows, batch, futures, pipelineFit, sink,
                 closeCount, sinkRows, writing, cur, fileState, returned>>

(* ------------------ Scorer.score: leaving the blocks ------------------ *)
\* ExecutorShutdown as shutdown(wait=False): it returns at once.
ExecutorShutdownNoWait ==
  /\ pc = "shutdown"
  /\ pc' = "close_sink"
  /\ UNCHANGED loadVars
  /\ UNCHANGED mainVars
  /\ UNCHANGED <<failedAt, fileRows, batch, futures, pipelineFit, sink,
                 closeCount, sinkRows, writing, cur, fileState, returned>>

\* ThreadPoolExecutor.__exit__ is shutdown(wait=True): it returns when every
\* submitted work item has run.
ExecutorShutdown ==
  /\ pc = "shutdown"
  /\ \A i \in 1..Len(futures) : futures[i].state = "finished"
  /\ pc' = "close_sink"
  /\ UNCHANGED loadVars
  /\ UNCHANGED mainVars
  /\ UNCHANGED <<failedAt, fileRows, batch, futures, pipelineFit, sink,
                 closeCount, sinkRows, writing, cur, fileState, returned>>

\* ParquetWriter.__exit__ closes the writer; then score returns the path
\* (line 169) or the handler of line 171 logs and re-raises.
CloseSink ==
  /\ pc = "close_sink"
  /\ sink' = "closed"
  /\ closeCount' = closeCount + 1
  /\ IF failedAt = "none"
     THEN pc' = "done" /\ returned' = TRUE
     ELSE pc' = "failed" /\ UNCHANGED returned
  /\ UNCHANGED loadVars
  /\ UNCHANGED mainVars
  /\ UNCHANGED <<failedAt, fileRows, batch, futures, pipelineFit,
                 sinkRows, writing, cur, fileState>>

\* Every yielded batch takes at least one reader batch of at least one row, so
\* a run has at most MaxRows futures.
Next ==
  \/ LoadConfig
  \/ LoadModel
  \/ BuildPipeline
  \/ OpenSink
  \/ GenNext
  \/ GenExhaust
  \/ GenRaise
  \/ WorkerFit
  \/ \E i \in 1..MaxRows : WorkerFinish(i)
  \/ DrainResult
  \/ WriteEnd
  \/ DrainDone
  \/ ExecutorShutdown
  \/ CloseSink

Spec == Init /\ [][Next]_vars

\* The steps of the main thread and the steps of the pool's threads.
MainThreadNext ==
  \/ LoadConfig \/ LoadModel \/ BuildPipeline \/ OpenSink
  \/ GenNext \/ GenExhaust \/ GenRaise
  \/ DrainResult \/ WriteEnd \/ DrainDone \/ ExecutorShutdown \/ CloseSink
WorkerNext == WorkerFit \/ \E i \in 1..MaxRows : WorkerFinish(i)

\* A run under fair scheduling: neither the main thread nor the pool is
\* starved while it can take a step.
SpecLive == Spec /\ WF_vars(MainThreadNext) /\ WF_vars(WorkerNext)

(* -------------------- run_score_pipeline.main ------------------------- *)
\* The variables of Scorer.score, which main's own steps leave alone.
scoreVars == <<pc, batchSize, maxWorkers, cfgStatus, hasModelKey, config,
               modelStatus, pipeline, failedAt, fileRows, batch, futures,
               pipelineFit, sink, closeCount, sinkRows, writing, cur, fileState,
               returned>>

\* main is entered with any subset of its arguments given, under any .env.
InitMain ==
  /\ mainPc = "start"
  /\ args \in [ParamNames -> {"arg", "None"}]
  /\ env \in [ParamNames -> {"env", "undefined"}]
  /\ params = args
  /\ pc = "load_config"
  /\ batchSize = 1
  /\ maxWorkers = 1
  /\ cfgStatus = "unread"
  /\ hasModelKey = FALSE
  /\ config = <<>>
  /\ modelStatus = "unloaded"
  /\ pipeline = <<>>
  /\ failedAt = "none"
  /\ fileRows = <<>>
  /\ batch = <<>>
  /\ futures = <<>>
  /\ pipelineFit = 0
  /\ sink = "unopened"
  /\ closeCount = 0
  /\ sinkRows = <<>>
  /\ writing = {}
  /\ cur = 0
  /\ fileState = "untouched"
  /\ returned = FALSE

\* config(NAME) for both names of a pair: UndefinedValueError unless both are set.
EnvDefined(p, q) == env[p] = "env" /\ env[q] = "env"

\* Line 24 when both paths were given: the whole .env block is skipped.
MainSkipEnv ==
  /\ mainPc = "start"
  /\ ~(params["data_path"] = "None" \/ params["pipeline_path"] = "None")
  /\ mainPc' = "create_scorer"
  /\ UNCHANGED <<args, env, params>>
  /\ UNCHANGED scoreVars

\* Lines 24-28: a path is missing, so BOTH paths are read from .env; an
\* undefined one raises ValueError (lines 35-37).
MainLoadPaths ==
  /\ mainPc = "start"
  /\ params["data_path"] = "None" \/ params["pipeline_path"] = "None"
  /\ IF EnvDefined("data_path", "pipeline_path")
     THEN /\ params' = [params EXCEPT !["data_path"] = "env",
                                      !["pipeline_path"] = "env"]
          /\ mainPc' = "load_params"
     ELSE /\ mainPc' = "startup_error"
          /\ UNCHANGED params
  /\ UNCHANGED <<args, env>>
  /\ UNCHANGED scoreVars

\* Lines 30-33, reached only after the paths came from .env: when a parameter
\* is missing BOTH are read from .env; an undefined one raises ValueError.
MainLoadParams ==
  /\ mainPc = "load_params"
  /\ IF params["batch_size"] = "None" \/ params["max_workers"] = "None"
     THEN IF EnvDefined("batch_size", "max_workers")
          THEN /\ params' = [params EXCEPT !["batch_size"] = "env",
                                           !["max_workers"] = "env"]
               /\ mainPc' = "create_scorer"
          ELSE /\ mainPc' = "startup_error"
               /\ UNCHANGED params
     ELSE /\ mainPc' = "create_scorer"
          /\ UNCHANGED params
  /\ UNCHANGED <<args, env>>
  /\ UNCHANGED scoreVars

\* Line 41: Scorer(data_path, pipeline_path).
MainCreateScorer ==
  /\ mainPc = "create_scorer"
  /\ mainPc' = "score"
  /\ UNCHANGED <<args, env, params>>
  /\ UNCHANGED scoreVars

\* Lines 43-52: scorer.score returns the path, which is reported, or raises,
\* which is logged; main itself returns normally either way.
MainScore ==
  /\ mainPc = "score"
  /\ \E outcome \in {"reported_success", "reported_failure"} : mainPc' = outcome
  /\ UNCHANGED <<args, env, params>>
  /\ UNCHANGED scoreVars

NextMain ==
  \/ MainSkipEnv
  \/ MainLoadPaths
  \/ MainLoadParams
  \/ MainCreateScorer
  \/ MainScore

SpecMain == InitMain /\ [][NextMain]_vars

(* ============================ properties ============================== *)
\* build has run on the configuration that was loaded.
BuildRan == cfgStatus = "ok" /\ modelStatus \in {"ok", "no_predict"} /\ pc # "build"

\* The names of the steps of cfg whose class resolves, in declaration order.
OkSteps(cfg) == SelectSeq([i \in 1..Len(cfg) |-> i], LAMBDA i : cfg[i] = "ok")

UnknownSteps(cfg) == {i \in 1..Len(cfg) : cfg[i] = "unknown"}

\* C1: when k >= 1 steps of the configuration name a class no module exposes
\* (and no constructor rejects its params), build does not raise and returns
\* the pipeline of the other len(steps) - k steps, in declaration order.
C1_UnknownStepsSkipped ==
  (/\ BuildRan
   /\ UnknownSteps(config) # {}
   /\ \A i \in 1..Len(config) : config[i] # "badparams")
  => /\ failedAt # "build"
     /\ pipeline = OkSteps(config)
     /\ Len(pipeline) = Len(config) - Cardinality(UnknownSteps(config))

\* C2: every batch submitted to the pool has at most batch_size rows, and every
\* batch but the last has exactly batch_size rows, whatever the sizes of the
\* reader's batches.  Stated for the inputs of the claim's example, whose rows
\* are all well-formed, so that no row is dropped on the way.
C2_BatchAtMostBatchSize ==
  DropNa(fileRows) = fileRows =>
    \A i \in 1..Len(futures) :
      /\ Len(futures[i].batch) <= batchSize
      /\ i < Len(futures) => Len(futures[i].batch) = batchSize

\* C3: no batch the generator yields has zero rows, unless the input is empty.
C3_NoEmptyBatch ==
  \A i \in 1..Len(futures) : futures[i].batch # <<>> \/ fileRows = <<>>

\* A batch whose processing raises in fit_transform or in predict.
BatchRaises(b) == FitRaises(b) \/ modelStatus = "no_predict"

\* C4: an exception raised while a batch is processed ends in the worker as
\* "no result": no future holds an exception, every other submitted batch is
\* still processed to its result, the only failure of a run whose sink was
\* opened is the reader's, and a run that is done has returned the path.
C4_BatchErrorContained ==
  /\ \A i \in 1..Len(futures) :
       futures[i].state = "finished" =>
         /\ ~futures[i].raised
         /\ futures[i].ok <=> ~BatchRaises(futures[i].batch)
  /\ (pc \in {"done", "failed"} /\ sink # "unopened") =>
         \A i \in 1..Len(futures) : futures[i].state = "finished"
  /\ (pc = "failed" /\ sink # "unopened") => failedAt = "scoring"
  /\ pc = "done" => returned

\* A run in which one batch raised, another was written, and score returned.
C4_Witness ==
  /\ pc = "done" /\ returned
  /\ \E i, j \in 1..Len(futures) :
       /\ BatchRaises(futures[i].batch) /\ futures[i].drained = "none"
       /\ futures[j].drained = "written"

\* C5: a completed run writes at most N predictions for an input of N rows, and
\* exactly N when no batch fails and no row is dropped for a missing value.
C5_PredictionCount ==
  pc = "done" =>
    /\ Len(sinkRows) <= Len(fileRows)
    /\ ((\A i \in 1..Len(futures) : futures[i].ok) /\ DropNa(fileRows) = fileRows)
         => Len(sinkRows) = Len(fileRows)

\* C6: only the main thread is ever inside write_table, so at most one write
\* to the sink is in progress, whatever the workers are doing.
C6_SingleWriter ==
  /\ writing \subseteq {MainThread}
  /\ Cardinality(writing) <= 1
  /\ writing # {} => pc = "writing"

\* The main thread is writing while a worker is processing another batch.
C6_Witness ==
  /\ writing = {MainThread}
  /\ Running # {}

AllFinished == \A i \in 1..Len(futures) : futures[i].state = "finished"

\* C7: once opened, the sink is closed exactly once, only when no future is
\* pending or running, and nothing is written to it after it is closed; this
\* also holds when the run fails after the sink was opened.
C7_SinkClosedOnce ==
  /\ [](/\ closeCount <= 1
        /\ sink = "closed" <=> closeCount = 1
        /\ sink = "closed" => AllFinished /\ writing = {}
        /\ (pc \in {"done", "failed"} /\ fileState = "created") => sink = "closed")
  /\ [][sink = "closed" =>
          sink' = "closed" /\ sinkRows' = sinkRows /\ writing' = {}]_vars

\* The reader raised after batches were submitted, and the run has ended.
C7_Witness ==
  /\ pc = "failed" /\ failedAt = "scoring"
  /\ Len(futures) >= 1
  /\ sink = "closed" /\ closeCount = 1

\* C8: what a worker passes to predict for a batch was transformed with the
\* fit state of that same batch.
C8_OwnFitOnly ==
  \A i \in 1..Len(futures) : futures[i].ok => futures[i].usedFit = i

Range(s) == {s[i] : i \in 1..Len(s)}
Count(s, v) == Cardinality({i \in 1..Len(s) : s[i] = v})
SameBag(s, t) == \A v \in Range(s) \cup Range(t) : Count(s, v) = Count(t, v)

\* The predictions of the submitted batches when each is transformed with its
\* own fit, as a run with one worker computes them.
ExpectedRows ==
  Concat([i \in 1..Len(futures) |->
            IF BatchRaises(futures[i].batch) THEN <<>>
            ELSE Predict(Transform(futures[i].batch, FitState(futures[i].batch)))])

\* C9: the multiset of predictions a run writes depends on the input, the
\* configuration and the model only, not on max_workers or the interleaving.
C9_SameMultiset ==
  (pc = "done" /\ \A i \in 1..Len(futures) : futures[i].drained # "write_failed")
    => SameBag(sinkRows, ExpectedRows)

\* The pipeline file, the model key or the model file is bad.
LoadFailed ==
  \/ cfgStatus \in {"unreadable", "malformed"}
  \/ cfgStatus = "ok" /\ ~hasModelKey /\ pc # "load_model"
  \/ modelStatus = "unloadable"

\* C10: when the pipeline file cannot be loaded, the model key is missing or
\* the model cannot be loaded, score raises with no batch read or submitted,
\* the sink unopened and the output file untouched.
C10_LoadFailureBeforeScoring ==
  LoadFailed =>
    /\ pc = "failed" /\ ~returned
    /\ failedAt \in {"load_config", "load_model"}
    /\ fileRows = <<>> /\ futures = <<>>
    /\ sink = "unopened" /\ fileState = "untouched"

\* The pipeline file was read and holds no model key.
C10_Witness ==
  pc = "failed" /\ failedAt = "load_model" /\ cfgStatus = "ok" /\ ~hasModelKey
\* main has created its Scorer.
ScorerCreated == mainPc \in {"score", "reported_success", "reported_failure"}

\* C13: every parameter that is given keeps the given value, every omitted one
\* takes its .env value, and when an omitted parameter has no .env value main
\* fails before a Scorer is created.
C13_ParamsResolved ==
  ScorerCreated =>
    \A p \in ParamNames :
      /\ args[p] = "arg" => params[p] = "arg"
      /\ args[p] = "None" => params[p] = "env" /\ env[p] = "env"
BadParamSteps(cfg) == {i \in 1..Len(cfg) : cfg[i] = "badparams"}

\* C11: when the constructor of a class that was found rejects its params,
\* build raises: no pipeline is returned and score aborts with no batch read
\* or submitted and the sink unopened.
C11_BadParamsAbortBuild ==
  (BuildRan /\ BadParamSteps(config) # {}) =>
    /\ pc = "failed" /\ failedAt = "build" /\ ~returned
    /\ pipeline = <<>>
    /\ fileRows = <<>> /\ futures = <<>>
    /\ sink = "unopened"

\* build has raised on a configuration whose only bad step has bad params.
C11_Witness ==
  /\ pc = "failed" /\ failedAt = "build"
  /\ BadParamSteps(config) # {} /\ UnknownSteps(config) = {}
  /\ OkSteps(config) # <<>>

\* An I/O error has happened: the reader raised, the sink could not be opened,
\* or write_table raised.
IOError ==
  \/ failedAt \in {"scoring", "open_sink"}
  \/ \E i \in 1..Len(futures) : futures[i].drained = "write_failed"

\* C12: after an I/O error on the input or on the sink, score raises and never
\* returns the output path.
C12_IOErrorsAbort ==
  IOError => /\ ~returned
             /\ pc \in {"done", "failed"} => pc = "failed"

\* The stage of the run the main thread is in.
Stage ==
  IF failedAt # "none" \/ pc = "failed" THEN "FAILED"
  ELSE IF pc = "load_config" THEN "LOADING_CONFIG"
  ELSE IF pc = "load_model" THEN "LOADING_MODEL"
  ELSE IF pc = "build" THEN "BUILDING_PIPELINE"
  ELSE IF pc \in {"open_sink", "submit", "drain", "writing"} THEN "SCORING"
  ELSE IF pc \in {"shutdown", "close_sink"} THEN "FINALIZING"
  ELSE "DONE"

ClaimedOrder == <<"LOADING_CONFIG", "BUILDING_PIPELINE", "LOADING_MODEL",
                  "SCORING", "FINALIZING", "DONE">>
CodeOrder == <<"LOADING_CONFIG", "LOADING_MODEL", "BUILDING_PIPELINE",
               "SCORING", "FINALIZING", "DONE">>

Pos(order, st) == CHOOSE i \in 1..Len(order) : order[i] = st

\* A step that changes the stage goes to the next stage of `order` or to
\* FAILED, and leaves neither FAILED nor DONE.
StageStep(order) ==
  Stage' # Stage =>
    /\ Stage \notin {"FAILED", "DONE"}
    /\ Stage' = "FAILED" \/ Pos(order, Stage') = Pos(order, Stage) + 1

\* Scoring has started only after the configuration, the model and the
\* pipeline were obtained.
ScoringAfterLoads ==
  Stage \in {"SCORING", "FINALIZING", "DONE"} =>
    /\ cfgStatus = "ok"
    /\ modelStatus \in {"ok", "no_predict"}
    /\ Build(config).exc = "none" /\ pipeline = Build(config).val

\* C14 as claimed: the stages are entered in the order LOADING_CONFIG,
\* BUILDING_PIPELINE, LOADING_MODEL, SCORING, FINALIZING, DONE, scoring starts
\* only after both loads succeeded, and FAILED is absorbing.
C14_ClaimedStageOrder == []ScoringAfterLoads /\ [][StageStep(ClaimedOrder)]_vars

\* C14 as amended: the stages are entered in the order LOADING_CONFIG,
\* LOADING_MODEL, BUILDING_PIPELINE, SCORING, FINALIZING, DONE (the model is
\* loaded before the pipeline is built), scoring starts only after both
\* succeeded, and FAILED is absorbing.
C14_StageOrder == []ScoringAfterLoads /\ [][StageStep(CodeOrder)]_vars

\* A run went through every stage and scored a batch.
C14_Witness == Stage = "DONE" /\ sinkRows # <<>>

\* C15: when no step is declared, or every declared step names a class no
\* module exposes, build returns an (empty) pipeline instead of raising.
C15_EmptyPipelineReturned ==
  (BuildRan /\ OkSteps(config) = <<>> /\ BadParamSteps(config) = {}) =>
    /\ failedAt # "build"
    /\ pipeline = <<>>

\* The predictions of the batches that were processed successfully.
OkPreds ==
  Concat([i \in 1..Len(futures) |->
            IF futures[i].ok THEN futures[i].preds ELSE <<>>])

\* C16: in a completed run every batch was drained once: the predictions of
\* each successful batch are in the sink exactly once, and a failed batch left
\* nothing in it.
C16_DrainedExactlyOnce ==
  pc = "done" =>
    /\ \A i \in 1..Len(futures) :
         futures[i].drained = IF futures[i].ok THEN "written" ELSE "none"
    /\ Len(sinkRows) = Len(OkPreds)
    /\ SameBag(sinkRows, OkPreds)

NothingDrained ==
  /\ sinkRows = <<>> /\ writing = {}
  /\ \A i \in 1..Len(futures) : futures[i].drained = "no"

\* C17: nothing is written to the sink before the input is read to its end and
\* every batch is submitted; when the reader raises, the batches submitted so
\* far still run, none of their predictions is written, and the file is left
\* closed with zero rows.
C17_NoWriteBeforeAllSubmitted ==
  /\ pc \in {"load_config", "load_model", "build", "open_sink", "submit"}
       => NothingDrained
  /\ failedAt = "scoring" => NothingDrained
  /\ (failedAt = "scoring" /\ pc = "failed") => AllFinished /\ sink = "closed"

\* The reader raised after a batch was submitted; the batch was processed
\* successfully and its predictions were never written.
C17_Witness ==
  /\ pc = "failed" /\ failedAt = "scoring"
  /\ \E i \in 1..Len(futures) : futures[i].ok /\ futures[i].preds # <<>>
  /\ sink = "closed" /\ sinkRows = <<>>

\* The rows of the batches yielded so far, in yield order.
Yielded == Concat([i \in 1..Len(futures) |-> futures[i].batch])

\* C18: the rows yielded, followed by the rows still held in the generator's
\* list, are the feature columns of the rows read, without those that have a
\* missing value, in read order; when the generator has returned, nothing is
\* held back.
C18_RowsPreserved ==
  /\ Yielded \o Concat(batch) = SelectFeatures(DropNa(fileRows))
  /\ (failedAt = "none" /\ pc \in {"drain", "writing", "shutdown", "close_sink", "done"})
       => Yielded = SelectFeatures(DropNa(fileRows))

\* Several batches were yielded from an input that lost a row to dropna.
C18_Witness ==
  /\ pc = "drain"
  /\ Len(futures) >= 2
  /\ Len(fileRows) >= 3 /\ Len(DropNa(fileRows)) = Len(fileRows) - 1

\* The run has ended, all its batches are finished and the sink is not open.
Terminated ==
  /\ pc \in {"done", "failed"}
  /\ pc = "done" => returned
  /\ AllFinished
  /\ sink # "open"

\* C19: under fair scheduling, when every worker invocation terminates, every
\* run of score ends, returning the path or raising, with all submitted
\* batches finished and the sink closed.
C19_Terminates == <>[]Terminated

\* A run with a single worker thread ended after two batches.
C19_Witness ==
  /\ Terminated /\ pc = "done"
  /\ maxWorkers = 1 /\ Len(futures) >= 2
====
